---- MODULE Spec2Model ----
(***************************************************************************)
(* Model of the Telecom Hire form backend (src/main.py): a FastAPI         *)
(* application with three routes, /health, /debug and /submit, on top of   *)
(* one MongoDB collection.                                                 *)
(*                                                                         *)
(* Strings are tuples of one-character strings, so that len(), lower() and *)
(* the regular expressions of the Submission model are computed and not    *)
(* assumed.  JSON null and an absent key are the two tuples Null and       *)
(* Missing, which are no strings.                                          *)
(*                                                                         *)
(* A /submit request suspends at its two awaits (find_one, insert_one);    *)
(* the store executes each of the two operations atomically, and requests  *)
(* interleave between them.  Store operations are taken to complete: the   *)
(* model has no connectivity fault, so the generic handler of              *)
(* src/main.py:135-136 is not reached from insert_one.                     *)
(***************************************************************************)
EXTENDS Integers, Sequences, FiniteSets, TLC

VARIABLES
    config,      \* which of MONGO_URI, MONGO_DB, MONGO_COLLECTION are non-empty
    phase,       \* "boot" before the startup event, "serving" after it
    collection,  \* the global collection handle: "None" or "handle"
    indexes,     \* the indexes of the collection, by name
    store,       \* the documents of the collection
    clock,       \* the server's UTC clock
    nextId,      \* the next ObjectId the driver generates
    reqs,        \* the /submit requests, by arrival order
    out,         \* the response of a /health or /debug call, until it is sent
    inputs       \* the payloads the clients of this run send

vars ==
    <<config, phase, collection, indexes, store, clock, nextId, reqs, out, inputs>>

(* ------------------------------ bounds -------------------------------- *)

MaxReq == 2
MaxClock == 1

Requests == 1..MaxReq

(* ------------------------------ strings ------------------------------- *)

Null == <<"null">>
Missing == <<"missing">>

Digits == {"0", "1", "5", "6", "9"}

IsStr(v) == v # Null /\ v # Missing

\* str.lower(), character by character
LowerChar(c) ==
    CASE c = "A" -> "a"
      [] c = "B" -> "b"
      [] c = "X" -> "x"
      [] OTHER -> c

Lower(s) == [i \in 1..Len(s) |-> LowerChar(s[i])]

\* bool(s) of a str or None
Truthy(v) == IsStr(v) /\ Len(v) > 0

AtPositions(s) == {i \in 1..Len(s) : s[i] = "@"}

\* EmailStr: one "@" with a non-empty local part and a non-empty domain
IsEmailSyntax(v) ==
    /\ IsStr(v)
    /\ Cardinality(AtPositions(v)) = 1
    /\ \A i \in AtPositions(v) : 1 < i /\ i < Len(v)

\* EmailStr returns the address with its domain lower-cased
NormalizeEmail(s) ==
    LET at == CHOOSE i \in AtPositions(s) : TRUE
    IN  [i \in 1..Len(s) |-> IF i > at THEN LowerChar(s[i]) ELSE s[i]]

MinLength(v, n) == IsStr(v) /\ Len(v) >= n

\* pattern ^\d{6}$
IsSixDigits(v) == IsStr(v) /\ Len(v) = 6 /\ \A i \in 1..Len(v) : v[i] \in Digits

\* pattern ^(YES|NO)$
IsYesNo(v) == v \in {<<"Y", "E", "S">>, <<"N", "O">>}

(* ----------------------- the Submission model ------------------------- *)

RequiredText == {"circle", "state", "district", "designation", "activity"}

\* The fields of a payload that fail validation
ValidationErrors(p) ==
    {f \in RequiredText : ~MinLength(p[f], 1)}
    \cup (IF IsEmailSyntax(p.email_primary) THEN {} ELSE {"email_primary"})
    \cup (IF p.email_alt = Missing \/ p.email_alt = Null \/ IsStr(p.email_alt)
          THEN {} ELSE {"email_alt"})
    \cup (IF MinLength(p.name, 2) THEN {} ELSE {"name"})
    \cup (IF MinLength(p.contact_number, 7) THEN {} ELSE {"contact_number"})
    \cup (IF IsSixDigits(p.pin_code) THEN {} ELSE {"pin_code"})
    \cup (IF IsYesNo(p.work_at_height_certificate)
          THEN {} ELSE {"work_at_height_certificate"})
    \cup (IF IsYesNo(p.ppes) THEN {} ELSE {"ppes"})

Validates(p) == ValidationErrors(p) = {}

\* An optional field with default ""
Defaulted(v) == IF v = Missing THEN <<>> ELSE v

\* The Submission a payload that validates is parsed to, as model_dump()
\* returns it: the declared fields only, the defaults filled in
ModelDump(p) ==
    [email_primary |-> NormalizeEmail(p.email_primary),
     email_alt |-> Defaulted(p.email_alt),
     circle |-> p.circle,
     state |-> p.state,
     district |-> p.district,
     name |-> p.name,
     contact_number |-> p.contact_number,
     pin_code |-> p.pin_code,
     designation |-> p.designation,
     activity |-> p.activity,
     work_at_height_certificate |-> p.work_at_height_certificate,
     ppes |-> p.ppes,
     farm_tocli_number |-> Defaulted(p.farm_tocli_number),
     jbth_certificate_number |-> Defaulted(p.jbth_certificate_number)]

\* e1 without the call of lower()
E1NoLower(p) == ModelDump(p).email_primary

\* e1 = data.email_primary.lower()
E1(p) == Lower(ModelDump(p).email_primary)

\* e2 = data.email_alt.lower() if data.email_alt else None
E2(p) ==
    LET alt == ModelDump(p).email_alt
    IN  IF Truthy(alt) THEN Lower(alt) ELSE Null

(* ------------------------------ the clock ----------------------------- *)

DigitChar(n) ==
    CASE n = 0 -> "0" [] n = 1 -> "1" [] n = 2 -> "2" [] n = 3 -> "3"
      [] n = 4 -> "4" [] n = 5 -> "5" [] n = 6 -> "6" [] n = 7 -> "7"
      [] n = 8 -> "8" [] n = 9 -> "9"

DigitVal(c) == CHOOSE n \in 0..9 : DigitChar(n) = c

\* datetime.isoformat(): a fixed-width rendering, most significant digit first
IsoFormat(t) == <<DigitChar((t \div 10) % 10), DigitChar(t % 10)>>

\* The order of two timestamps as the store sorts them: as strings
StampLeq(a, b) ==
    \/ DigitVal(a[1]) < DigitVal(b[1])
    \/ a[1] = b[1] /\ DigitVal(a[2]) <= DigitVal(b[2])

(* ------------------------------ the store ----------------------------- *)

\* The document with the timestamp of the payload kept when there is one
BuildDocClientStamp(p, t) ==
    [email_primary_lower |-> E1(p),
     email_alt_lower |-> E2(p),
     submittedAt |-> IF p.submittedAt # Missing THEN p.submittedAt ELSE IsoFormat(t)]
    @@ ModelDump(p)

\* The document submit() builds from a payload at clock value t
BuildDoc(p, t) ==
    [email_primary_lower |-> E1(p),
     email_alt_lower |-> E2(p),
     submittedAt |-> IsoFormat(t)] @@ ModelDump(p)

\* The document as the store keeps it, under the ObjectId the driver gave it
Stored(oid, doc) == ("_id" :> oid) @@ doc

\* str(ObjectId)
ObjectIdStr(oid) == <<"oid", oid>>

\* The or-clauses without those of the alternate email
OrClausesPrimaryOnly(e1, e2) ==
    {<<"email_primary_lower", e1>>}
    \cup (IF Truthy(e2) THEN {<<"email_primary_lower", e2>>} ELSE {})

\* The or-clauses of the duplicate query, as (field, value) pairs
OrClauses(e1, e2) ==
    {<<"email_primary_lower", e1>>, <<"email_alt_lower", e1>>}
    \cup (IF Truthy(e2)
          THEN {<<"email_primary_lower", e2>>, <<"email_alt_lower", e2>>}
          ELSE {})

\* find_one with a filter that every document matches
FindMatchesAny(docs, clauses) == docs

\* collection.find_one({"$or": or_clauses}): the documents that match
FindMatches(docs, clauses) ==
    {d \in docs : \E c \in clauses : d[c[1]] = c[2]}

\* The indexes with the one on the primary email created without unique=True
StartupIndexesNotUnique(existing) ==
    {ix \in existing : ix.name # "uniq_email_alt_lower"}
    \cup {[name |-> "uniq_email_primary_lower",
           key |-> "email_primary_lower", unique |-> FALSE],
          [name |-> "idx_email_alt_lower",
           key |-> "email_alt_lower", unique |-> FALSE],
          [name |-> "idx_pin_code", key |-> "pin_code", unique |-> FALSE]}

\* The indexes on_startup leaves on the collection
StartupIndexes(existing) ==
    LET kept == {ix \in existing : ix.name # "uniq_email_alt_lower"}
    IN  kept \cup {[name |-> "uniq_email_primary_lower",
                    key |-> "email_primary_lower", unique |-> TRUE],
                   [name |-> "idx_email_alt_lower",
                    key |-> "email_alt_lower", unique |-> FALSE],
                   [name |-> "idx_pin_code", key |-> "pin_code", unique |-> FALSE]}

LegacyAltIndex ==
    [name |-> "uniq_email_alt_lower", key |-> "email_alt_lower", unique |-> TRUE]

\* insert_one raises DuplicateKeyError: a unique index holds the value already
\* (a sparse index skips only a document without the field, and submit() sets
\* every indexed field of every document, None included)
DuplicateKey(docs, ixs, doc) ==
    \E ix \in ixs : ix.unique /\ \E d \in docs : d[ix.key] = doc[ix.key]

DebugLimit == 5

\* The projection of /debug: email_primary and submittedAt, no _id
Project(d) == [email_primary |-> d.email_primary, submittedAt |-> d.submittedAt]

\* find({}).sort("submittedAt", -1).limit(5): the possible result lists (the
\* order of documents with equal timestamps is the store's choice)
RecentLists(docs) ==
    LET n == IF Cardinality(docs) < DebugLimit THEN Cardinality(docs) ELSE DebugLimit
    IN  {s \in [1..n -> docs] :
            /\ \A i, j \in 1..n : i < j =>
                  /\ s[i] # s[j]
                  /\ StampLeq(s[j].submittedAt, s[i].submittedAt)
            /\ \A d \in docs : (\A i \in 1..n : s[i] # d) =>
                  \A i \in 1..n : StampLeq(d.submittedAt, s[i].submittedAt)}

(* ------------------------------ payloads ------------------------------ *)

\* A payload that conforms to every constraint of the Submission model
BasePayload ==
    [email_primary |-> <<"a", "@", "x">>,
     email_alt |-> Missing,
     circle |-> <<"c">>,
     state |-> <<"s">>,
     district |-> <<"d">>,
     name |-> <<"J", "o">>,
     contact_number |-> <<"9", "9", "9", "9", "9", "9", "9">>,
     pin_code |-> <<"5", "6", "0", "0", "0", "1">>,
     designation |-> <<"e">>,
     activity |-> <<"r">>,
     work_at_height_certificate |-> <<"Y", "E", "S">>,
     ppes |-> <<"N", "O">>,
     farm_tocli_number |-> Missing,
     jbth_certificate_number |-> Missing,
     submittedAt |-> Missing]

\* Other values in the fields that are no email, an explicit null for the
\* alternate email, and a timestamp of the client's own
OtherPayload ==
    [BasePayload EXCEPT !.email_alt = Null,
                        !.name = <<"A", "l">>,
                        !.ppes = <<"Y", "E", "S">>,
                        !.farm_tocli_number = <<"1">>,
                        !.submittedAt = <<"9", "9">>]

\* Payloads that conform to the field table and differ in their emails: two
\* primary addresses, one of them in two spellings, each with and without an
\* alternate address that is the other primary address in another spelling
EmailPayloads ==
    {BasePayload,
     [BasePayload EXCEPT !.email_alt = <<"B", "@", "x">>],
     [BasePayload EXCEPT !.email_primary = <<"b", "@", "x">>],
     [BasePayload EXCEPT !.email_primary = <<"b", "@", "x">>,
                         !.email_alt = <<"A", "@", "x">>],
     [OtherPayload EXCEPT !.email_primary = <<"A", "@", "X">>],
     [OtherPayload EXCEPT !.email_primary = <<"A", "@", "X">>,
                          !.email_alt = <<"B", "@", "x">>]}

\* Payloads with one field changed to a value at or past a constraint's edge
EdgePayloads ==
    {[BasePayload EXCEPT !.contact_number = [i \in 1..21 |-> "9"]],
     [BasePayload EXCEPT !.contact_number = [i \in 1..6 |-> "9"]],
     [BasePayload EXCEPT !.email_alt = <<"b", "x">>],
     [BasePayload EXCEPT !.email_primary = <<"a", "x">>],
     [BasePayload EXCEPT !.district = Missing],
     [BasePayload EXCEPT !.name = <<"J">>],
     [BasePayload EXCEPT !.pin_code = <<"5", "6", "0", "0", "0", "X">>],
     [BasePayload EXCEPT !.ppes = <<"y", "e", "s">>]}

EdgeInputs == EdgePayloads \cup {BasePayload}

(* ------------------------------- state -------------------------------- *)

Settings == {"MONGO_URI", "MONGO_DB", "MONGO_COLLECTION"}

NoOut == [kind |-> "none"]
Idle == [pc |-> "idle"]

\* A request that has been answered: the response, whether insert_one was
\* called, and the requests that were suspended before their own insert_one
\* when it was
Answered(p, code, oid, tried, rivals) ==
    [pc |-> "done", payload |-> p, status |-> code, id |-> oid,
     attempted |-> tried, with |-> rivals]

\* A request suspended between find_one and insert_one
Pending(p, t) == [pc |-> "insert", payload |-> p, start |-> t]

\* What the collection holds when the process starts: nothing, or a document
\* an earlier run of the service stored
EarlierDoc ==
    Stored(0, BuildDoc([BasePayload EXCEPT !.email_primary = <<"b", "@", "x">>], 0))

InitWith(payloads) ==
    /\ config \in [Settings -> BOOLEAN]
    /\ phase = "boot"
    /\ collection = "None"
    /\ indexes \in {{}, {LegacyAltIndex}}
    /\ store \in {{}, {EarlierDoc}}
    /\ clock = 0
    /\ nextId = 1
    /\ reqs = [r \in Requests |-> Idle]
    /\ out = NoOut
    /\ inputs = payloads

Init == InitWith(EmailPayloads)

InitEdge == InitWith(EdgeInputs)

(* ------------------------------ actions ------------------------------- *)

\* The startup event: connect and ensure the indexes, when fully configured
OnStartup ==
    /\ phase = "boot"
    /\ phase' = "serving"
    /\ IF \E k \in Settings : ~config[k]
       THEN UNCHANGED <<collection, indexes>>
       ELSE /\ collection' = "handle"
            /\ indexes' = StartupIndexes(indexes)
    /\ UNCHANGED <<config, store, clock, nextId, reqs, out, inputs>>

\* The body of what /health returns
HealthBody(ping) ==
    IF ~config["MONGO_URI"] \/ ~config["MONGO_DB"]
    THEN [kind |-> "health", status |-> "ok", mongo |-> "not-configured"]
    ELSE IF ping
    THEN [kind |-> "health", status |-> "ok", mongo |-> "connected"]
    ELSE [kind |-> "health", status |-> "error", mongo |-> "exception"]

\* GET /health: the ping succeeds or raises
Health ==
    /\ phase = "serving"
    /\ out = NoOut
    /\ \E ping \in BOOLEAN : out' = HealthBody(ping)
    /\ UNCHANGED <<config, phase, collection, indexes, store, clock, nextId,
                   reqs, inputs>>

\* GET /debug (its two reads of the store taken together)
Debug ==
    /\ phase = "serving"
    /\ out = NoOut
    /\ IF collection = "None"
       THEN out' = [kind |-> "debug", status |-> 503]
       ELSE \E s \in RecentLists(store) :
               out' = [kind |-> "debug", status |-> 200,
                       count |-> Cardinality(store),
                       recent |-> [i \in DOMAIN s |-> Project(s[i])]]
    /\ UNCHANGED <<config, phase, collection, indexes, store, clock, nextId,
                   reqs, inputs>>

\* The response of /health or /debug leaves the server
Respond ==
    /\ out # NoOut
    /\ out' = NoOut
    /\ UNCHANGED <<config, phase, collection, indexes, store, clock, nextId,
                   reqs, inputs>>

\* What the handler of /submit does with a payload up to the result of find_one
SubmitOutcome(p) ==
    IF ~Validates(p)
    THEN Answered(p, 422, Null, FALSE, {})
    ELSE IF collection = "None"
    THEN Answered(p, 500, Null, FALSE, {})
    ELSE IF FindMatches(store, OrClauses(E1(p), E2(p))) # {}
    THEN Answered(p, 409, Null, FALSE, {})
    ELSE Pending(p, clock)

\* POST /submit, from the arrival of the request to the result of find_one
Submit(r, p) ==
    /\ phase = "serving"
    /\ out = NoOut
    /\ reqs[r].pc = "idle"
    /\ \A q \in Requests : q < r => reqs[q].pc # "idle"
    /\ reqs' = [reqs EXCEPT ![r] = SubmitOutcome(p)]
    /\ UNCHANGED <<config, phase, collection, indexes, store, clock, nextId,
                   out, inputs>>

\* insert_one whose DuplicateKeyError is caught by the generic handler
InsertOutcomeGeneric(p, doc, rivals) ==
    IF DuplicateKey(store, indexes, doc)
    THEN [answer |-> Answered(p, 500, Null, TRUE, rivals), docs |-> store]
    ELSE [answer |-> Answered(p, 200, ObjectIdStr(nextId), TRUE, rivals),
          docs |-> store \cup {Stored(nextId, doc)}]

\* A write that replaces the document of the same primary email (an upsert)
InsertOutcomeUpsert(p, doc, rivals) ==
    IF DuplicateKey(store, indexes, doc)
    THEN [answer |-> Answered(p, 409, Null, TRUE, rivals),
          docs |-> {d \in store : d.email_primary_lower # doc.email_primary_lower}
                   \cup {Stored(nextId, doc)}]
    ELSE [answer |-> Answered(p, 200, ObjectIdStr(nextId), TRUE, rivals),
          docs |-> store \cup {Stored(nextId, doc)}]

\* What insert_one of a document does to the store, and the response
InsertOutcome(p, doc, rivals) ==
    IF DuplicateKey(store, indexes, doc)
    THEN [answer |-> Answered(p, 409, Null, TRUE, rivals), docs |-> store]
    ELSE [answer |-> Answered(p, 200, ObjectIdStr(nextId), TRUE, rivals),
          docs |-> store \cup {Stored(nextId, doc)}]

\* POST /submit, from building the document to the response: the clock is read
\* at some moment t after find_one returned and before insert_one runs
SubmitInsert(r) ==
    /\ out = NoOut
    /\ reqs[r].pc = "insert"
    /\ \E t \in reqs[r].start..clock :
          LET res == InsertOutcome(reqs[r].payload, BuildDoc(reqs[r].payload, t),
                                   {q \in Requests \ {r} : reqs[q].pc = "insert"})
          IN  /\ reqs' = [reqs EXCEPT ![r] = res.answer]
              /\ store' = res.docs
    /\ nextId' = nextId + 1
    /\ UNCHANGED <<config, phase, collection, indexes, clock, out, inputs>>

\* Time passes
Tick ==
    /\ out = NoOut
    /\ clock < MaxClock
    /\ clock' = clock + 1
    /\ UNCHANGED <<config, phase, collection, indexes, store, nextId, reqs,
                   out, inputs>>

Next ==
    \/ OnStartup
    \/ Health
    \/ Debug
    \/ Respond
    \/ \E r \in Requests, p \in inputs : Submit(r, p)
    \/ \E r \in Requests : SubmitInsert(r)
    \/ Tick

Spec == Init /\ [][Next]_vars

SpecEdge == InitEdge /\ [][Next]_vars

(* --------------------- the vocabulary of the claims -------------------- *)

Present(v) == v # Missing /\ v # Null /\ Len(v) > 0

\* A payload that conforms to the field table of the specification
Conforms(p) ==
    /\ IsEmailSyntax(p.email_primary)
    /\ Present(p.email_alt) => IsEmailSyntax(p.email_alt)
    /\ \A f \in RequiredText : Present(p[f])
    /\ Present(p.name) /\ Len(p.name) >= 2
    /\ Present(p.contact_number)
    /\ Len(p.contact_number) >= 7 /\ Len(p.contact_number) <= 20
    /\ IsSixDigits(p.pin_code)
    /\ IsYesNo(p.work_at_height_certificate)
    /\ IsYesNo(p.ppes)

\* The normalized emails of a payload or of a stored document
EmailsOf(x) ==
    {Lower(x.email_primary)}
    \cup (IF Present(x.email_alt) THEN {Lower(x.email_alt)} ELSE {})

SamePrimary(p, q) == Lower(p.email_primary) = Lower(q.email_primary)

\* Some stored record carries a normalized email of the payload
Collides(docs, p) == \E d \in docs : EmailsOf(d) \cap EmailsOf(p) # {}

Configured == \A k \in Settings : config[k]

Arrives(r) == reqs[r].pc = "idle" /\ reqs'[r].pc # "idle"

Inserts(r) == reqs[r].pc = "insert" /\ reqs'[r].pc = "done"

Done(r) == reqs[r].pc = "done"

DocOf(r) == {d \in store : ObjectIdStr(d["_id"]) = reqs[r].id}

(* ------------------------------- claims ------------------------------- *)

\* C1: in every reachable state no two stored submissions have the same
\* lowercased email_primary.
C1_PrimaryUnique ==
    \A d1, d2 \in store :
        d1 # d2 => Lower(d1.email_primary) # Lower(d2.email_primary)

\* C1 witness: two submissions are stored and a request whose primary email is
\* the one of a stored submission in another spelling was refused.
C1_Witness ==
    /\ Cardinality(store) >= 2
    /\ \E r \in Requests :
          /\ Done(r) /\ reqs[r].status = 409
          /\ \E d \in store : /\ Lower(d.email_primary) = Lower(reqs[r].payload.email_primary)
                              /\ d.email_primary # reqs[r].payload.email_primary

\* C2 as stated: when a conforming request arrives after a conforming request
\* with the same primary email (ignoring case) was answered, on a configured
\* store, the earlier one was a success and the later one is a 409, whatever
\* is stored.
C2_Original ==
    [][\A r1, r2 \in Requests :
          (/\ Done(r1) /\ Arrives(r2)
           /\ Configured
           /\ Conforms(reqs[r1].payload) /\ Conforms(reqs'[r2].payload)
           /\ SamePrimary(reqs[r1].payload, reqs'[r2].payload))
          => /\ reqs[r1].status = 200
             /\ reqs'[r2].pc = "done" /\ reqs'[r2].status = 409]_vars

\* C2 amended: in that situation the earlier request was answered with a
\* success or a 409, and when it was a success the later one is a 409 from
\* the pre-check, whatever the other fields are and whatever else is stored.
C2_SecondRejected ==
    [][\A r1, r2 \in Requests :
          (/\ Done(r1) /\ Arrives(r2)
           /\ Configured
           /\ Conforms(reqs[r1].payload) /\ Conforms(reqs'[r2].payload)
           /\ SamePrimary(reqs[r1].payload, reqs'[r2].payload))
          => /\ reqs[r1].status \in {200, 409}
             /\ reqs[r1].status = 200 =>
                   /\ reqs'[r2].pc = "done" /\ reqs'[r2].status = 409
                   /\ ~reqs'[r2].attempted]_vars

\* C2 witness: a success, then a 409 for a payload with the same primary email
\* in another spelling and other values in other fields, with an earlier
\* document of another applicant in the store.
C2_Witness ==
    /\ EarlierDoc \in store
    /\ \E r1, r2 \in Requests :
          /\ Done(r1) /\ Done(r2)
          /\ reqs[r1].status = 200 /\ reqs[r1].with = {}
          /\ reqs[r2].status = 409 /\ ~reqs[r2].attempted
          /\ SamePrimary(reqs[r1].payload, reqs[r2].payload)
          /\ reqs[r1].payload.email_primary # reqs[r2].payload.email_primary
          /\ reqs[r1].payload.name # reqs[r2].payload.name

\* C3: when two requests with the same normalized primary email both passed
\* the pre-check before either ran insert_one (and no third request with that
\* email was accepted), the one whose insert ran first is accepted and stored
\* once, and the other gets a 409 from insert_one, not a success and not a 500.
C3_RaceDecidedByIndex ==
    \A r1, r2 \in Requests :
        (/\ r1 # r2 /\ Done(r1) /\ Done(r2)
         /\ r2 \in reqs[r1].with
         /\ E1(reqs[r1].payload) = E1(reqs[r2].payload)
         /\ \A r3 \in Requests \ {r1, r2} :
               Done(r3) /\ reqs[r3].status = 200
               => ~SamePrimary(reqs[r3].payload, reqs[r1].payload))
        => /\ reqs[r1].status = 200
           /\ reqs[r2].status = 409 /\ reqs[r2].attempted
           /\ Cardinality(DocOf(r1)) = 1
           /\ {d \in store : Lower(d.email_primary) = E1(reqs[r1].payload)} = DocOf(r1)

\* C3 witness: two requests that spell the same primary email differently
\* raced past the pre-check and both were answered.
C3_Witness ==
    \E r1, r2 \in Requests :
        /\ r1 # r2 /\ Done(r1) /\ Done(r2)
        /\ r2 \in reqs[r1].with
        /\ SamePrimary(reqs[r1].payload, reqs[r2].payload)
        /\ reqs[r1].payload.email_primary # reqs[r2].payload.email_primary

\* Each success has an identifier of its own, under which its document is stored
FreshId(r) ==
    /\ reqs[r].id # Null
    /\ Cardinality(DocOf(r)) = 1
    /\ \A q \in Requests \ {r} :
          Done(q) /\ reqs[q].status = 200 => reqs[q].id # reqs[r].id

C5_Original ==
    \A r \in Requests :
        reqs[r].pc # "idle" /\ Configured /\ ~Conforms(reqs[r].payload)
        => Done(r) /\ reqs[r].status = 422 /\ ~reqs[r].attempted

\* C6 as stated: with one of the three settings absent, /health reports
\* "not-configured", /debug fails with a 503, and every conforming /submit
\* fails with a 500 or 503 and nothing is stored.
C6_Original ==
    ~Configured =>
        /\ out.kind = "health" => out.mongo = "not-configured"
        /\ out.kind = "debug" => out.status = 503
        /\ \A r \in Requests :
              Done(r) /\ Conforms(reqs[r].payload)
              => reqs[r].status \in {500, 503} /\ ~reqs[r].attempted
        /\ store \subseteq {EarlierDoc}

\* C7: when a request that validates arrives on a configured store and a stored
\* record has a normalized primary or alternate email equal to its normalized
\* primary or non-empty alternate email, it is answered with a 409 and
\* insert_one is not called for it.
C7_PreCheckRejects ==
    [][\A r \in Requests :
          (/\ Arrives(r)
           /\ Configured
           /\ Validates(reqs'[r].payload)
           /\ Collides(store, reqs'[r].payload))
          => /\ reqs'[r].pc = "done" /\ reqs'[r].status = 409
             /\ ~reqs'[r].attempted
             /\ store' = store /\ nextId' = nextId]_vars

\* C7 witness: a request was refused by the pre-check because its alternate
\* email is the primary email of a stored record, while its own primary email
\* is nowhere in the store.
C7_Witness ==
    \E r \in Requests :
        /\ Done(r) /\ reqs[r].status = 409 /\ ~reqs[r].attempted
        /\ Present(reqs[r].payload.email_alt)
        /\ \E d \in store : Lower(d.email_primary) = Lower(reqs[r].payload.email_alt)
        /\ \A d \in store : Lower(reqs[r].payload.email_primary) \notin EmailsOf(d)

\* C8: the store changes only by a /submit that returns success, which adds
\* exactly one document and touches no other; a /submit that ends in a 409, 422
\* or 500, and the steps of /health and /debug, leave the store as it was.
C8_StoreFrame ==
    [][/\ store \subseteq store'
       /\ store' # store =>
             /\ Cardinality(store' \ store) = 1
             /\ \E r \in Requests : Inserts(r) /\ reqs'[r].status = 200
       /\ \A r \in Requests :
             ~Done(r) /\ reqs'[r].pc = "done"
             => (reqs'[r].status = 200) = (store' # store)
       /\ out' # out => store' = store]_vars

\* C8 witness: a request that insert_one refused was answered with a 409 while
\* the document of the request that won is in the store.
C8_Witness ==
    \E r, q \in Requests :
        /\ Done(r) /\ reqs[r].status = 409 /\ reqs[r].attempted
        /\ Done(q) /\ reqs[q].status = 200 /\ DocOf(q) # {}

\* C9: the timestamp of a document that enters the store is the rendering of a
\* clock value between the arrival of its request and its insert, and is not
\* the timestamp the client supplied.
C9_ServerStamp ==
    [][\A d \in store' \ store :
          \E r \in Requests :
             /\ Inserts(r)
             /\ ObjectIdStr(d["_id"]) = reqs'[r].id
             /\ \E t \in reqs[r].start..clock : d.submittedAt = IsoFormat(t)
             /\ d.submittedAt # reqs[r].payload.submittedAt]_vars

\* C9 witness: the document of a payload that carried a timestamp of the
\* client is stored with the clock value 1.
C9_Witness ==
    \E r \in Requests :
        /\ Done(r) /\ reqs[r].status = 200
        /\ reqs[r].payload.submittedAt # Missing
        /\ \E d \in DocOf(r) : d.submittedAt = IsoFormat(1)

\* C10 as stated: no normalized email appears, as primary or as alternate, in
\* two different stored submissions.
C10_Original ==
    \A d1, d2 \in store : d1 # d2 => EmailsOf(d1) \cap EmailsOf(d2) = {}

====
